---- MODULE Spec2Model ----
(***************************************************************************)
(* LitFinder: fetch / merge / deduplicate / clean / enrich / export.       *)
(* Text is modelled as a sequence of one-character strings, so that        *)
(* splitting, trimming, case folding and tag stripping are computed.       *)
(***************************************************************************)
EXTENDS Integers, Sequences, FiniteSets, TLC

VARIABLES
    \* cleaning.remove_duplicates
    df, row_i, seen_dois, final_rows,
    \* fetchers.fetch_all and the three source adapters
    max_results, sources, task, results, requests, pages, stop,
    cursor, start, done, fetch_pc, pending, consumed, frames, table,
    \* cleaning.clean_html_abstract, applied at app.py:123 and app.py:75
    text, cleaned, recleaned, clean_pc,
    \* fetchers.reconstruct_abstract
    index, abstract, abstract_pc,
    \* cleaning.normalize_authors, applied at app.py:127 and app.py:67
    name_string, normalized, renormalized, authors_pc,
    \* app.py main logic with summarizer.run_summaries, nlp.extract_keywords
    run_pc, client_ok, do_summ, do_keys, abstracts, summary, keywords,
    \* app.clean_for_biblioshiny
    export_df, df_ready, export_pc,
    \* the item loops of fetch_crossref and fetch_openalex on one page
    item_source, page_items, item_max, item_i, item_results, item_pc,
    \* fetch_all then remove_duplicates, run twice on the same adapter outputs
    outputs, first_run, order_pc

dedupVars == <<df, row_i, seen_dois, final_rows>>
adapterVars == <<task, results, requests, pages, stop, cursor, start, done>>
fetchVars == <<max_results, sources, adapterVars, fetch_pc, pending, consumed, frames, table>>
cleanVars == <<text, cleaned, recleaned, clean_pc>>
abstractVars == <<index, abstract, abstract_pc>>
authorVars == <<name_string, normalized, renormalized, authors_pc>>
textVars == <<cleanVars, abstractVars, authorVars>>
enrichVars == <<run_pc, client_ok, do_summ, do_keys, abstracts, summary, keywords>>
exportVars == <<export_df, df_ready, export_pc>>
itemVars == <<item_source, page_items, item_max, item_i, item_results, item_pc>>
orderVars == <<outputs, first_run, order_pc>>
vars == <<dedupVars, fetchVars, textVars, enrichVars, exportVars, itemVars, orderVars>>

\* what each component leaves alone
otherThanDedup ==
    <<fetchVars, textVars, enrichVars, exportVars, itemVars, orderVars>>
otherThanFetch ==
    <<dedupVars, textVars, enrichVars, exportVars, itemVars, orderVars>>
otherThanClean ==
    <<dedupVars, fetchVars, abstractVars, authorVars, enrichVars, exportVars, itemVars, orderVars>>
otherThanAbstract ==
    <<dedupVars, fetchVars, cleanVars, authorVars, enrichVars, exportVars, itemVars, orderVars>>
otherThanAuthors ==
    <<dedupVars, fetchVars, cleanVars, abstractVars, enrichVars, exportVars, itemVars, orderVars>>
otherThanEnrich ==
    <<dedupVars, fetchVars, textVars, exportVars, itemVars, orderVars>>
otherThanExport ==
    <<dedupVars, fetchVars, textVars, enrichVars, itemVars, orderVars>>
otherThanItems ==
    <<dedupVars, fetchVars, textVars, enrichVars, exportVars, orderVars>>
otherThanOrder == <<fetchVars, textVars, enrichVars, exportVars, itemVars>>

(***************************************************************************)
(* Text helpers                                                            *)
(***************************************************************************)
Range(s) == {s[k] : k \in 1..Len(s)}

Max2(a, b) == IF a >= b THEN a ELSE b
Min2(a, b) == IF a <= b THEN a ELSE b

Rep(c, n) == [k \in 1..n |-> c]

IsSpace(c) == c = " "

\* str.lower()
LowerChar(c) == IF c = "A" THEN "a" ELSE IF c = "B" THEN "b" ELSE c
Lower(s) == [k \in 1..Len(s) |-> LowerChar(s[k])]

\* str.strip(): drop leading and trailing whitespace
RECURSIVE LStrip(_)
LStrip(s) == IF s # <<>> /\ IsSpace(Head(s)) THEN LStrip(Tail(s)) ELSE s
RECURSIVE RStrip(_)
RStrip(s) ==
    IF s # <<>> /\ IsSpace(s[Len(s)]) THEN RStrip(SubSeq(s, 1, Len(s) - 1)) ELSE s
Strip(s) == RStrip(LStrip(s))

(***************************************************************************)
(* rapidfuzz.fuzz.ratio: 100 * (1 - indel(s,t) / (|s|+|t|)), where         *)
(* indel(s,t) = |s| + |t| - 2 * LCS(s,t); two empty strings score 100.     *)
(***************************************************************************)
\* one row of the LCS table: acc holds columns 0..Len(acc)-1 of the row of
\* character c, prev is the row above
RECURSIVE LcsRow(_, _, _, _)
LcsRow(c, t, prev, acc) ==
    IF Len(acc) > Len(t) THEN acc
    ELSE LET j == Len(acc)
         IN  LcsRow(c, t, prev,
                    Append(acc, IF c = t[j] THEN prev[j] + 1
                                ELSE Max2(prev[j + 1], acc[j])))

RECURSIVE LcsRows(_, _, _, _)
LcsRows(s, t, i, prev) ==
    IF i > Len(s) \/ Len(prev) # Len(t) + 1 THEN prev[Len(t) + 1]
    ELSE LcsRows(s, t, i + 1, LcsRow(s[i], t, prev, <<0>>))

Lcs(s, t) == LcsRows(s, t, 1, [j \in 1..(Len(t) + 1) |-> 0])

\* fuzz.ratio(s, t) > threshold, in integers
RatioExceeds(s, t, threshold) ==
    IF Len(s) + Len(t) = 0 THEN 100 > threshold
    ELSE 200 * Lcs(s, t) > threshold * (Len(s) + Len(t))

(***************************************************************************)
(* cleaning.clean_html_abstract: re.sub(r"<[^<]+?>", "", text)             *)
(***************************************************************************)
MaxLen == 6

Chars == {"<", ">", "a"}

Strings(alphabet, n) == UNION { [1..k -> alphabet] : k \in 0..n }

\* a cell value is a string (a sequence of characters) or not a string
Str(s) == [isstr |-> TRUE, s |-> s]
NotStr == [isstr |-> FALSE, s |-> <<>>]

\* "<" at i-1 and one character that is not "<" are matched; the lazy
\* [^<]+? then grows one character at a time until ">" follows: the
\* position of that ">", or 0 when a "<" or the end comes first
RECURSIVE TagClose(_, _)
TagClose(x, j) ==
    IF j > Len(x) THEN 0
    ELSE IF x[j] = ">" THEN j
    ELSE IF x[j] = "<" THEN 0
    ELSE TagClose(x, j + 1)

\* the end of the match of <[^<]+?> that starts at i, or 0
TagEnd(x, i) ==
    IF x[i] = "<" /\ i + 1 <= Len(x) /\ x[i + 1] # "<"
    THEN TagClose(x, i + 2)
    ELSE 0

\* re.sub: one left-to-right pass over non-overlapping matches
RECURSIVE SubTags(_, _)
SubTags(x, i) ==
    IF i > Len(x) THEN <<>>
    ELSE IF TagEnd(x, i) > 0 THEN SubTags(x, TagEnd(x, i) + 1)
    ELSE <<x[i]>> \o SubTags(x, i + 1)

clean_html_abstract(v) == IF ~v.isstr THEN <<>> ELSE SubTags(v.s, 1)

CleanIdle ==
    /\ text = NotStr
    /\ cleaned = <<>>
    /\ recleaned = <<>>
    /\ clean_pc = "idle"

\* app.py:123: df["abstract"].apply(cached_clean_html)
CleanAbstract ==
    /\ clean_pc = "raw"
    /\ cleaned' = clean_html_abstract(text)
    /\ clean_pc' = "cleaned"
    /\ UNCHANGED <<text, recleaned, otherThanClean>>

\* app.py:75: clean_for_biblioshiny cleans the cleaned column again
CleanAgain ==
    /\ clean_pc = "cleaned"
    /\ recleaned' = clean_html_abstract(Str(cleaned))
    /\ clean_pc' = "recleaned"
    /\ UNCHANGED <<text, cleaned, otherThanClean>>

CleanNext == CleanAbstract \/ CleanAgain

(***************************************************************************)
(* fetchers.reconstruct_abstract                                           *)
(***************************************************************************)
MaxTokens == 4

Words == {"q", "c", "t"}

\* the inverted index a provider builds from an abstract's tokens:
\* word -> ascending list of the 0-based positions it occurs at
Positions(tokens, w) ==
    LET occ == {k \in 1..Len(tokens) : tokens[k] = w}
        Sorted[S \in SUBSET (1..Len(tokens))] ==
            IF S = {} THEN <<>>
            ELSE LET m == CHOOSE x \in S : \A y \in S : x <= y
                 IN  <<m - 1>> \o Sorted[S \ {m}]
    IN  Sorted[occ]

InvertedIndex(tokens) ==
    [isdict |-> TRUE, d |-> [w \in Range(tokens) |-> Positions(tokens, w)]]

NotDict == [isdict |-> FALSE, d |-> <<>>]

Indexes ==
    {InvertedIndex(t) : t \in Strings(Words, MaxTokens)} \cup {NotDict}

\* min(x[1])
ListMin(l) == CHOOSE m \in Range(l) : \A y \in Range(l) : m <= y

\* join with a separator string
RECURSIVE Join(_, _)
Join(parts, sep) ==
    IF parts = <<>> THEN <<>>
    ELSE IF Len(parts) = 1 THEN parts[1]
    ELSE parts[1] \o sep \o Join(Tail(parts), sep)

\* one entry per (word, position) pair, sorted by position
RECURSIVE PairsByPosition(_, _)
PairsByPosition(d, p) ==
    IF \E w \in DOMAIN d : p \in Range(d[w])
    THEN <<<<CHOOSE w \in DOMAIN d : p \in Range(d[w])>>>>
         \o PairsByPosition(d, p + 1)
    ELSE <<>>

AbstractByPosition(ix) ==
    IF ~ix.isdict THEN <<>> ELSE Join(PairsByPosition(ix.d, 0), <<" ">>)

\* sorted(index.items(), key=lambda x: min(x[1])): one entry per word
RECURSIVE SortedByMin(_, _)
SortedByMin(d, ws) ==
    IF ws = {} THEN <<>>
    ELSE LET w == CHOOSE x \in ws :
                    \A y \in ws : ListMin(d[x]) <= ListMin(d[y])
         IN  <<<<w>>>> \o SortedByMin(d, ws \ {w})

reconstruct_abstract(ix) ==
    IF ~ix.isdict THEN <<>>
    ELSE IF \E w \in DOMAIN ix.d : ix.d[w] = <<>> THEN <<>>
    ELSE Join(SortedByMin(ix.d, DOMAIN ix.d), <<" ">>)

AbstractIdle ==
    /\ index = NotDict
    /\ abstract = <<>>
    /\ abstract_pc = "idle"

\* fetchers.py:61: "abstract": reconstruct_abstract(item.get(...))
Reconstruct ==
    /\ abstract_pc = "item"
    /\ abstract' = reconstruct_abstract(index)
    /\ abstract_pc' = "record"
    /\ UNCHANGED <<index, otherThanAbstract>>

AbstractNext == Reconstruct

(***************************************************************************)
(* cleaning.normalize_authors                                              *)
(***************************************************************************)
MaxNames == 2
MaxNameTokens == 3

NameTokens == {<<"a">>, <<"b", "c">>}

\* str.split(sep) on a one-character separator
RECURSIVE SplitOn(_, _, _)
SplitOn(s, sep, cur) ==
    IF s = <<>> THEN <<cur>>
    ELSE IF Head(s) = sep THEN <<cur>> \o SplitOn(Tail(s), sep, <<>>)
    ELSE SplitOn(Tail(s), sep, Append(cur, Head(s)))

\* str.split(): the maximal runs of non-whitespace
RECURSIVE SplitWs(_, _)
SplitWs(s, cur) ==
    IF s = <<>> THEN (IF cur = <<>> THEN <<>> ELSE <<cur>>)
    ELSE IF IsSpace(Head(s))
         THEN (IF cur = <<>> THEN <<>> ELSE <<cur>>) \o SplitWs(Tail(s), <<>>)
    ELSE SplitWs(Tail(s), Append(cur, Head(s)))

\* seq[::-1]
Reverse(q) == [k \in 1..Len(q) |-> q[Len(q) + 1 - k]]

\* " ".join(name.strip().split()[::-1])
ReverseName(name) == Join(Reverse(SplitWs(Strip(name), <<>>)), <<" ">>)

\* [... for name in authors if name.strip()]
RECURSIVE ReversedNames(_)
ReversedNames(names) ==
    IF names = <<>> THEN <<>>
    ELSE IF Strip(Head(names)) = <<>> THEN ReversedNames(Tail(names))
    ELSE <<ReverseName(Head(names))>> \o ReversedNames(Tail(names))

\* names joined by "," alone
normalize_authors_CommaOnly(v) ==
    IF ~v.isstr THEN <<>>
    ELSE Join(ReversedNames(SplitOn(v.s, ",", <<>>)), <<",">>)

normalize_authors(v) ==
    IF ~v.isstr THEN <<>>
    ELSE Join(ReversedNames(SplitOn(v.s, ",", <<>>)), <<",", " ">>)

\* the canonical author strings: non-empty names joined by ", ", the
\* tokens of a name separated by single spaces
CanonicalNames ==
    { Join(n, <<" ">>) :
        n \in UNION { [1..k -> NameTokens] : k \in 1..MaxNameTokens } }

CanonicalAuthors ==
    { Join(l, <<",", " ">>) :
        l \in UNION { [1..k -> CanonicalNames] : k \in 1..MaxNames } }

\* author strings that are not canonical
OtherAuthors ==
    { <<>>, <<" ">>, <<",">>,
      <<"a", " ", " ", "b", "c">>,
      <<"a", " ", "b", "c", ",">>,
      <<" ", "a", ",", "b", "c", " ", "a">> }

AuthorsIdle ==
    /\ name_string = NotStr
    /\ normalized = <<>>
    /\ renormalized = <<>>
    /\ authors_pc = "idle"

\* app.py:127: df["authors"] = safe_normalize_authors(df["authors"])
NormalizeAuthors ==
    /\ authors_pc = "raw"
    /\ normalized' = normalize_authors(name_string)
    /\ authors_pc' = "normalized"
    /\ UNCHANGED <<name_string, renormalized, otherThanAuthors>>

\* app.py:67: clean_for_biblioshiny normalizes the normalized column again
NormalizeAgain ==
    /\ authors_pc = "normalized"
    /\ renormalized' = normalize_authors(Str(normalized))
    /\ authors_pc' = "renormalized"
    /\ UNCHANGED <<name_string, normalized, otherThanAuthors>>

AuthorsNext == NormalizeAuthors \/ NormalizeAgain

TextIdle == CleanIdle /\ AbstractIdle /\ AuthorsIdle

(***************************************************************************)
(* app.py main logic after a successful fetch, with                        *)
(* summarizer.run_summaries and nlp.extract_keywords                       *)
(***************************************************************************)
MaxEnrichRows == 2

\* run_summaries / extract_keywords: batch_size
batch_size == 12

RowIds == 1..Len(abstracts)

\* _summarize_one: placeholder for an empty abstract, else one call that
\* gives a summary or, on error, an error marker
SummarizeOne(i, call_ok) ==
    IF ~abstracts[i] THEN "No abstract provided."
    ELSE IF call_ok[i] THEN "summary"
    ELSE "[Summarization error]"

\* _keywords_one: [] for an empty abstract or a failed or malformed call
KeywordsOne(i, call_ok) ==
    IF abstracts[i] /\ call_ok[i] THEN <<"keyword">> ELSE <<>>

EnrichIdle ==
    /\ run_pc = "idle"
    /\ client_ok = TRUE
    /\ do_summ = FALSE
    /\ do_keys = FALSE
    /\ abstracts = <<>>
    /\ summary = <<>>
    /\ keywords = <<>>

\* "if go": the sidebar's choices are read; ensure_columns has set summary
\* and keywords to ""
Go ==
    /\ run_pc = "fetched"
    /\ \E s \in BOOLEAN, k \in BOOLEAN :
          /\ do_summ' = s
          /\ do_keys' = k
          /\ run_pc' = IF s THEN "summaries" ELSE IF k THEN "keywords" ELSE "export"
    /\ UNCHANGED <<client_ok, abstracts, summary, keywords, otherThanEnrich>>

\* run_summaries on one batch: _summarize_batch builds the client before
\* its try block; inside it the batch call fails (error, undecodable
\* reply) or answers for some of the ids, and every id without an answer
\* goes to _summarize_one
RunSummaries ==
    /\ run_pc = "summaries"
    /\ Len(abstracts) <= batch_size
    /\ IF ~client_ok
       THEN run_pc' = "error" /\ UNCHANGED summary
       ELSE /\ \E answered \in SUBSET RowIds, call_ok \in [RowIds -> BOOLEAN] :
                 summary' = [i \in RowIds |->
                               IF i \in answered THEN "summary"
                               ELSE SummarizeOne(i, call_ok)]
            /\ run_pc' = IF do_keys THEN "keywords" ELSE "export"
    /\ UNCHANGED <<client_ok, do_summ, do_keys, abstracts, keywords, otherThanEnrich>>

\* extract_keywords on one batch: the same shape as run_summaries
ExtractKeywords ==
    /\ run_pc = "keywords"
    /\ Len(abstracts) <= batch_size
    /\ IF ~client_ok
       THEN run_pc' = "error" /\ UNCHANGED keywords
       ELSE /\ \E answered \in SUBSET RowIds, call_ok \in [RowIds -> BOOLEAN] :
                 keywords' = [i \in RowIds |->
                                IF i \in answered THEN <<"keyword">>
                                ELSE KeywordsOne(i, call_ok)]
            /\ run_pc' = "export"
    /\ UNCHANGED <<client_ok, do_summ, do_keys, abstracts, summary, otherThanEnrich>>

\* df_ready = clean_for_biblioshiny(df): the output table is produced
ExportReady ==
    /\ run_pc = "export"
    /\ run_pc' = "done"
    /\ UNCHANGED <<client_ok, do_summ, do_keys, abstracts, summary, keywords,
                   otherThanEnrich>>

EnrichNext == Go \/ RunSummaries \/ ExtractKeywords \/ ExportReady

(***************************************************************************)
(* app.clean_for_biblioshiny                                               *)
(***************************************************************************)
MaxExportRows == 2

columns_to_keep ==
    <<"title", "authors", "year", "abstract", "summary", "keywords", "journal">>

\* fetch_all's keep_cols followed by ensure_columns' summary and keywords
PipelineColumns ==
    <<"title", "authors", "year", "abstract", "journal", "doi", "source",
      "summary", "keywords">>

ColumnOrders == {PipelineColumns, Reverse(PipelineColumns)}

AllColumns == Range(PipelineColumns)

\* cells: text, a missing value, an integer, a number n + 1/2, a list of texts
Text(s) == [t |-> "str", v |-> s]
NoneCell == [t |-> "none", v |-> <<>>]
IntCell(n) == [t |-> "int", v |-> <<n>>]
HalfCell(n) == [t |-> "half", v |-> <<n>>]
ListCell(l) == [t |-> "list", v |-> l]

FullRows ==
    { [c \in AllColumns |->
         CASE c = "title" -> Text(<<"a">>)
           [] c = "authors" -> Text(<<"a", " ", "b", "c">>)
           [] c = "year" -> IntCell(2020)
           [] c = "abstract" -> Text(<<"<", "a", ">", "a">>)
           [] c = "journal" -> Text(<<"b", "c">>)
           [] c = "doi" -> Text(<<"x">>)
           [] c = "source" -> Text(<<"o">>)
           [] c = "summary" -> Text(<<"a">>)
           [] c = "keywords" -> ListCell(<<<<"a">>, <<"b", "c">>>>)],
      [c \in AllColumns |->
         CASE c = "authors" -> NoneCell
           [] c = "year" -> Text(<<>>)
           [] c = "abstract" -> NoneCell
           [] c = "source" -> Text(<<"c">>)
           [] OTHER -> Text(<<>>)],
      [c \in AllColumns |->
         CASE c = "title" -> Text(<<"b">>)
           [] c = "authors" -> Text(<<"b", "c", " ", "a", ",", " ", "a">>)
           [] c = "year" -> HalfCell(2020)
           [] c = "abstract" -> Text(<<"a">>)
           [] c = "journal" -> Text(<<>>)
           [] c = "doi" -> Text(<<>>)
           [] c = "source" -> Text(<<"a">>)
           [] c = "summary" -> Text(<<"a">>)
           [] c = "keywords" -> NoneCell] }

Restrict(row, cs) == [c \in cs |-> row[c]]

SelectColumns(order, cs) == SelectSeq(order, LAMBDA c : c \in cs)

ExportTables ==
    { [cols |-> SelectColumns(o, cs),
       rows |-> [k \in 1..n |-> Restrict(r[k], cs)]] :
         o \in ColumnOrders, cs \in SUBSET AllColumns,
         r \in [1..MaxExportRows -> FullRows], n \in 0..MaxExportRows }

AsArg(cell) == IF cell.t = "str" THEN Str(cell.v) ELSE NotStr

\* ", ".join(x) if isinstance(x, (list, tuple)) else (x or "")
JoinKeywords(cell) ==
    IF cell.t = "list" THEN Text(Join(cell.v, <<",", " ">>))
    ELSE IF cell.t = "str" THEN cell
    ELSE Text(<<>>)

\* .fillna("").astype(str).apply(cached_clean_html)
CleanCell(cell) == Text(clean_html_abstract(IF cell.t = "none" THEN Str(<<>>) ELSE AsArg(cell)))

\* pd.to_numeric(errors="coerce").astype("Int64") on one cell
CoerceYear(cell) == IF cell.t = "int" THEN cell ELSE NoneCell

\* astype("Int64") refuses a column holding a number that is no integer
YearRaises(t) ==
    /\ "year" \in Range(t.cols)
    /\ \E k \in 1..Len(t.rows) : t.rows[k]["year"].t = "half"

ExportCell(c, cell) ==
    CASE c = "authors" -> Text(normalize_authors(AsArg(cell)))
      [] c = "keywords" -> JoinKeywords(cell)
      [] c = "abstract" -> CleanCell(cell)
      [] c = "year" -> CoerceYear(cell)
      [] OTHER -> cell

\* a projection that keeps the kept columns in the input's order
ProjectedColumns_InputOrder(cols) ==
    LET kept == SelectSeq(cols, LAMBDA c : c \in Range(columns_to_keep))
    IN  IF kept # <<>> THEN kept ELSE cols

\* existing = [c for c in columns_to_keep if c in out.columns];
\* out[existing] if existing else out
ProjectedColumns(cols) ==
    LET existing == SelectSeq(columns_to_keep, LAMBDA c : c \in Range(cols))
    IN  IF existing # <<>> THEN existing ELSE cols

clean_for_biblioshiny(t) ==
    LET out == ProjectedColumns(t.cols)
    IN  [cols |-> out,
         rows |-> [k \in 1..Len(t.rows) |->
                     [c \in Range(out) |-> ExportCell(c, t.rows[k][c])]]]

EmptyTable == [cols |-> <<>>, rows |-> <<>>]

ExportIdle ==
    /\ export_df = EmptyTable
    /\ df_ready = EmptyTable
    /\ export_pc = "idle"

\* clean_for_biblioshiny(df) returns the projected table, or raises
Export ==
    /\ export_pc = "call"
    /\ IF YearRaises(export_df)
       THEN export_pc' = "raised" /\ UNCHANGED df_ready
       ELSE export_pc' = "returned" /\ df_ready' = clean_for_biblioshiny(export_df)
    /\ UNCHANGED <<export_df, otherThanExport>>

ExportNext == Export

\* rows of the table the main logic holds after fetch_all, remove_duplicates
\* and ensure_columns, before the text columns are normalized
FetchedRows ==
    { [c \in AllColumns |->
         CASE c = "title" -> Text(<<"a">>)
           [] c = "authors" -> au
           [] c = "year" -> yr
           [] c = "abstract" -> ab
           [] c = "journal" -> Text(<<"b", "c">>)
           [] c = "doi" -> Text(<<"x">>)
           [] c = "source" -> Text(<<"o">>)
           [] c = "summary" -> Text(<<>>)
           [] c = "keywords" -> kw] :
        au \in {Text(<<"a">>), Text(<<"a", " ", "b", "c">>),
                Text(<<"b", "c", " ", "a", ",", " ", "a">>), NoneCell},
        ab \in {Text(<<"a">>), Text(<<"<", "a", ">", "a">>),
                Text(<<"<", "<", "a", ">", "a", ">">>), NoneCell},
        yr \in {IntCell(2020), NoneCell},
        kw \in {Text(<<>>)} }

FetchedTables ==
    { [cols |-> PipelineColumns, rows |-> r] :
        r \in UNION { [1..n -> FetchedRows] : n \in 0..MaxExportRows } }

\* app.py:123 and app.py:127 on one cell
NormalizeCell(c, cell) ==
    CASE c = "abstract" -> CleanCell(cell)
      [] c = "authors" -> Text(normalize_authors(AsArg(cell)))
      [] OTHER -> cell

\* the main logic cleans the abstract column and normalizes the authors
\* column of df in place
NormalizeText ==
    /\ export_pc = "fetched"
    /\ export_df' = [export_df EXCEPT !.rows =
                       [k \in 1..Len(@) |->
                          [c \in DOMAIN @[k] |-> NormalizeCell(c, @[k][c])]]]
    /\ export_pc' = "enrich"
    /\ UNCHANGED <<df_ready, otherThanExport>>

\* run_summaries and extract_keywords, when selected, fill the summary and
\* keywords cells of the rows of idx (here: process_all, every row)
EnrichRows ==
    /\ export_pc = "enrich"
    /\ \E summ, keys \in BOOLEAN :
          export_df' = [export_df EXCEPT !.rows =
                          [k \in 1..Len(@) |->
                             [@[k] EXCEPT
                                !["summary"] = IF summ THEN Text(<<"a">>) ELSE @,
                                !["keywords"] =
                                   IF keys THEN ListCell(<<<<"a">>, <<"b", "c">>>>)
                                   ELSE @]]]
    /\ export_pc' = "call"
    /\ UNCHANGED <<df_ready, otherThanExport>>

PipelineNext == NormalizeText \/ EnrichRows \/ Export

(***************************************************************************)
(* fetchers: the item loops of fetch_crossref and fetch_openalex on one    *)
(* page that was received                                                  *)
(***************************************************************************)
MaxItems == 2

\* Python truth value of a cell
Truthy(cell) ==
    CASE cell.t = "none" -> FALSE
      [] cell.t = "int" -> cell.v # <<0>>
      [] OTHER -> cell.v # <<>>

\* str.replace(pat, ""): every non-overlapping occurrence, left to right
RECURSIVE RemoveAll(_, _)
RemoveAll(s, pat) ==
    IF Len(s) < Len(pat) THEN s
    ELSE IF SubSeq(s, 1, Len(pat)) = pat
         THEN RemoveAll(SubSeq(s, Len(pat) + 1, Len(s)), pat)
    ELSE <<Head(s)>> \o RemoveAll(Tail(s), pat)

JatsOpen == <<"<", "j", "a", "t", "s", ":", "p", ">">>
JatsClose == <<"<", "/", "j", "a", "t", "s", ":", "p", ">">>

\* values of issued["date-parts"]: absent, [[2020]], [[2020, 5]], [[]], [],
\* [2020], "2020"
DateParts ==
    { NoneCell,
      ListCell(<<ListCell(<<IntCell(2020)>>)>>),
      ListCell(<<ListCell(<<IntCell(2020), IntCell(5)>>)>>),
      ListCell(<<ListCell(<<>>)>>),
      ListCell(<<>>),
      ListCell(<<IntCell(2020)>>),
      Text(<<"2", "0", "2", "0">>) }

\* values of item["abstract"]: absent, a string in JATS markup, a number,
\* an empty list
ItemAbstracts ==
    { NoneCell,
      Text(JatsOpen \o <<"a">> \o JatsClose),
      IntCell(5),
      ListCell(<<>>) }

CrossrefItems == [date_parts : DateParts, abstract : ItemAbstracts]

\* values of item["abstract_inverted_index"]: a mapping, an empty mapping,
\* something that is no mapping
OpenAlexItems ==
    [index : {InvertedIndex(<<"q", "c">>), InvertedIndex(<<>>), NotDict}]

Pages(S) == UNION { [1..n -> S] : n \in 0..MaxItems }

\* lines 108-110: year = issued["date-parts"][0][0] behind three tests
YearRaisesIndexError(dp) ==
    /\ dp.t = "list" /\ dp.v # <<>> /\ dp.v[1].t = "list"
    /\ dp.v[1].v = <<>>

CrossrefYear(dp) ==
    IF dp.t = "list" /\ dp.v # <<>> /\ dp.v[1].t = "list"
    THEN dp.v[1].v[1]
    ELSE NoneCell

\* lines 112-113: (item.get("abstract") or "") is a string or has no replace
AbstractRaisesAttributeError(a) == Truthy(a) /\ a.t # "str"

CrossrefAbstract(a) ==
    IF ~Truthy(a) THEN <<>>
    ELSE RemoveAll(RemoveAll(a.v, JatsOpen), JatsClose)

CrossrefItemRaises(item) ==
    \/ YearRaisesIndexError(item.date_parts)
    \/ AbstractRaisesAttributeError(item.abstract)

CrossrefRecord(k, item) ==
    [item |-> k,
     year |-> CrossrefYear(item.date_parts),
     abstract |-> CrossrefAbstract(item.abstract)]

OpenAlexRecord(k, item) ==
    [item |-> k,
     abstract |-> reconstruct_abstract(item.index)]

ItemsIdle ==
    /\ item_source = ""
    /\ page_items = <<>>
    /\ item_max = 0
    /\ item_i = 0
    /\ item_results = <<>>
    /\ item_pc = "idle"

\* one pass of "for item in ...items": an exception raised while the item
\* is read leaves the loop for "except Exception: pass", and the adapter
\* returns the records appended so far
CrossrefItem ==
    /\ item_pc = "page"
    /\ item_source = "crossref"
    /\ IF item_i > Len(page_items)
       THEN item_pc' = "returned" /\ UNCHANGED <<item_i, item_results>>
       ELSE IF CrossrefItemRaises(page_items[item_i])
       THEN item_pc' = "returned_on_error" /\ UNCHANGED <<item_i, item_results>>
       ELSE /\ item_results' = Append(item_results, CrossrefRecord(item_i, page_items[item_i]))
            /\ item_i' = item_i + 1
            /\ item_pc' = IF Len(item_results') >= item_max THEN "returned" ELSE "page"
    /\ UNCHANGED <<item_source, page_items, item_max, otherThanItems>>

\* one pass of "for item in data.get("results", [])"
OpenAlexItem ==
    /\ item_pc = "page"
    /\ item_source = "openalex"
    /\ IF item_i > Len(page_items)
       THEN item_pc' = "returned" /\ UNCHANGED <<item_i, item_results>>
       ELSE /\ item_results' = Append(item_results, OpenAlexRecord(item_i, page_items[item_i]))
            /\ item_i' = item_i + 1
            /\ item_pc' = IF Len(item_results') >= item_max THEN "returned" ELSE "page"
    /\ UNCHANGED <<item_source, page_items, item_max, otherThanItems>>

ItemsNext == CrossrefItem \/ OpenAlexItem

(***************************************************************************)
(* cleaning.remove_duplicates                                              *)
(***************************************************************************)
MaxRows == 3

\* the DOI cells of the input table: "" is "no identifier"
Dois == {"", "10.1/x", "10.1/y"}

\* the title cells of the input table
Titles == { <<>>,
            Rep("a", 12), Rep("a", 11), Rep("a", 10),
            <<" ">> \o Rep("A", 11) \o <<" ">>,
            <<"b", "a", "b">> }

Rows == [doi : Dois, title : Titles]

Tables == UNION { [1..n -> Rows] : n \in 0..MaxRows }

\* title = str(row.get(title_col, "")).strip().lower()
NormTitle(row) == Lower(Strip(row.title))

NormTitles == { Lower(Strip(t)) : t \in Titles }

SimilarTable ==
    [p \in NormTitles \X NormTitles |-> RatioExceeds(p[1], p[2], 95)]

\* existing_title and title and fuzz.ratio(existing_title, title) > 95
TitleMatches(existing, row) ==
    /\ NormTitle(existing) # <<>>
    /\ NormTitle(row) # <<>>
    /\ SimilarTable[<<NormTitle(existing), NormTitle(row)>>]

\* pd.notna(doi) and isinstance(doi, str) and doi != ""
HasDoi(row) == row.doi # ""

\* a scan that also compares against rows that were dropped
IsTitleDuplicate_AllEarlier(row, kept) ==
    \E k \in 1..(row_i - 1) : TitleMatches(df[k], row)

\* the else branch: the scan of final_rows for a fuzzy title match
IsTitleDuplicate(row, kept) ==
    \E k \in 1..Len(kept) : TitleMatches(df[kept[k]], row)

DedupStart(t) ==
    /\ df = t
    /\ row_i = 1
    /\ seen_dois = {}
    /\ final_rows = <<>>

\* a DOI branch that forgets to record the DOI it has just kept
DedupDoiRow_NoSeenAdd ==
    /\ row_i <= Len(df)
    /\ HasDoi(df[row_i])
    /\ IF df[row_i].doi \in seen_dois
       THEN UNCHANGED final_rows
       ELSE final_rows' = Append(final_rows, row_i)
    /\ row_i' = row_i + 1
    /\ UNCHANGED <<df, seen_dois, otherThanDedup>>

\* one iteration of "for _, row in df.iterrows()" on a DOI-bearing row
DedupDoiRow ==
    /\ row_i <= Len(df)
    /\ HasDoi(df[row_i])
    /\ IF df[row_i].doi \in seen_dois
       THEN UNCHANGED <<seen_dois, final_rows>>
       ELSE /\ seen_dois' = seen_dois \cup {df[row_i].doi}
            /\ final_rows' = Append(final_rows, row_i)
    /\ row_i' = row_i + 1
    /\ UNCHANGED <<df, otherThanDedup>>

\* one iteration on a row without DOI
DedupTitleRow ==
    /\ row_i <= Len(df)
    /\ ~HasDoi(df[row_i])
    /\ IF IsTitleDuplicate(df[row_i], final_rows)
       THEN UNCHANGED final_rows
       ELSE final_rows' = Append(final_rows, row_i)
    /\ row_i' = row_i + 1
    /\ UNCHANGED <<df, seen_dois, otherThanDedup>>

DedupNext == DedupDoiRow \/ DedupTitleRow

(***************************************************************************)
(* fetchers: the source adapters and fetch_all                             *)
(***************************************************************************)
MaxResults == 2
MaxPage == 3
MaxRequests == 1

Sources == {"openalex", "crossref", "arxiv"}

\* arXiv's fixed chunk size
per_call == 100

\* a record is named by its source, the page it came on and its place there
PageRecords(s, k, n) == [j \in 1..n |-> <<s, k, j>>]

RECURSIVE Concat(_)
Concat(ss) == IF ss = <<>> THEN <<>> ELSE Head(ss) \o Concat(Tail(ss))

\* "for item in ...: results.append(...); if len(results) >= max_results:
\* break", with no test of the cap before the first append
AppendPage_NoBreak(res, items, cap) == res \o items

AppendPage(res, items, cap) ==
    IF items = <<>> THEN res
    ELSE res \o SubSeq(items, 1, Max2(1, Min2(Len(items), cap - Len(res))))

FetchIdle ==
    /\ max_results = 0
    /\ sources = {}
    /\ task = [s \in Sources |-> "none"]
    /\ results = [s \in Sources |-> <<>>]
    /\ requests = [s \in Sources |-> 0]
    /\ pages = [s \in Sources |-> <<>>]
    /\ stop = [s \in Sources |-> ""]
    /\ cursor = 0
    /\ start = 0
    /\ done = <<>>
    /\ pending = {}
    /\ consumed = {}
    /\ frames = <<>>
    /\ table = <<>>


\* fetch_all is called; every requested adapter is submitted to a pool of
\* len(sources) workers, so every task starts at once
Submit ==
    /\ fetch_pc = "call"
    /\ \E mr \in 1..MaxResults, srcs \in (SUBSET Sources) \ {{}} :
          /\ max_results' = mr
          /\ sources' = srcs
          /\ task' = [s \in Sources |-> IF s \in srcs THEN "running" ELSE "none"]
    /\ fetch_pc' = "submitted"
    /\ UNCHANGED <<results, requests, pages, stop, cursor, start, done,
                   pending, consumed, frames, table, otherThanFetch>>

\* "for f in as_completed(tasks)" starts: as_completed notes which tasks are
\* still pending; the tasks that have finished by now are yielded first, in
\* the iteration order of a set
AsCompleted ==
    /\ fetch_pc = "submitted"
    /\ pending' = {s \in sources : task[s] = "running"}
    /\ fetch_pc' = "collect"
    /\ UNCHANGED <<max_results, sources, adapterVars, consumed, frames, table,
                   otherThanFetch>>

\* an exception leaves an adapter from outside its try blocks
TaskRaises(s) ==
    /\ task[s] = "running"
    /\ requests[s] = 0
    /\ task' = [task EXCEPT ![s] = "raised"]
    /\ done' = Append(done, s)
    /\ UNCHANGED <<max_results, sources, results, requests, pages, stop,
                   cursor, start, fetch_pc, pending, consumed, frames, table,
                   otherThanFetch>>

\* the adapter's request number k is answered by a page of n items
Receive(s, n) ==
    /\ results' = [results EXCEPT ![s] =
                     AppendPage(@, PageRecords(s, requests[s] + 1, n), max_results)]
    /\ requests' = [requests EXCEPT ![s] = @ + 1]
    /\ pages' = [pages EXCEPT ![s] = Append(@, n)]

Return(s, why) ==
    /\ task' = [task EXCEPT ![s] = "returned"]
    /\ stop' = [stop EXCEPT ![s] = why]
    /\ done' = Append(done, s)

\* an error that truncates the adapter's results to nothing
Fail_DropResults(s) ==
    /\ task[s] = "running"
    /\ Return(s, "error")
    /\ results' = [results EXCEPT ![s] = <<>>]
    /\ UNCHANGED <<max_results, sources, requests, pages,
                   cursor, start, fetch_pc, pending, consumed, frames, table, otherThanFetch>>

\* sess.get, raise_for_status or the decoding of the body raises: "except
\* Exception: break" (OpenAlex, arXiv) or "pass" (Crossref)
Fail(s) ==
    /\ task[s] = "running"
    /\ Return(s, "error")
    /\ UNCHANGED <<max_results, sources, results, requests, pages,
                   cursor, start, fetch_pc, pending, consumed, frames, table, otherThanFetch>>

\* the provider's cursor tokens are opaque: all that matters is that the
\* token sent with the next request is the one just received
NextCursor(c) == IF c = 1 THEN 2 ELSE 1

\* one pass of fetch_openalex's while loop on a page that was received.
\* The first MaxRequests pages are of any size and are recorded in pages;
\* the pages after them are empty and leave no record
OpenAlexPage ==
    /\ task["openalex"] = "running"
    /\ \E n \in 0..MaxPage, next_cursor \in BOOLEAN :
          /\ IF requests["openalex"] < MaxRequests
             THEN Receive("openalex", n)
             ELSE n = 0 /\ UNCHANGED <<results, requests, pages>>
          /\ IF ~next_cursor
             THEN /\ Return("openalex", "no_cursor")
                  /\ UNCHANGED cursor
             ELSE /\ cursor' = NextCursor(cursor)
                  /\ IF Len(results'["openalex"]) < max_results
                     THEN UNCHANGED <<task, stop, done>>
                     ELSE Return("openalex", "max_results")
    /\ UNCHANGED <<max_results, sources, start, fetch_pc, pending, consumed,
                   frames, table, otherThanFetch>>

\* fetch_crossref's single request is answered
CrossrefPage ==
    /\ task["crossref"] = "running"
    /\ \E n \in 0..MaxPage : Receive("crossref", n)
    /\ Return("crossref", "single_page")
    /\ UNCHANGED <<max_results, sources, cursor, start, fetch_pc, pending,
                   consumed, frames, table, otherThanFetch>>

\* "import feedparser" fails: fetch_arxiv returns [] at once
ArxivNoFeedparser ==
    /\ task["arxiv"] = "running"
    /\ requests["arxiv"] = 0
    /\ Return("arxiv", "no_feedparser")
    /\ UNCHANGED <<max_results, sources, results, requests, pages,
                   cursor, start, fetch_pc, pending, consumed, frames, table, otherThanFetch>>

\* one pass of fetch_arxiv's while loop on a feed that was received
ArxivPage ==
    /\ task["arxiv"] = "running"
    /\ \E n \in 0..MaxPage :
          IF n = 0
          THEN /\ Return("arxiv", "no_entries")
               /\ requests' = [requests EXCEPT !["arxiv"] = @ + 1]
               /\ pages' = [pages EXCEPT !["arxiv"] = Append(@, 0)]
               /\ UNCHANGED <<results, start>>
          ELSE /\ Receive("arxiv", n)
               /\ start' = start + Min2(per_call, max_results - Len(results["arxiv"]))
               /\ IF Len(results'["arxiv"]) < max_results
                  THEN UNCHANGED <<task, stop, done>>
                  ELSE Return("arxiv", "max_results")
    /\ UNCHANGED <<max_results, sources, cursor, fetch_pc, pending, consumed,
                   frames, table, otherThanFetch>>

\* the place of a finished task in the order of completion
DoneAt(s) == CHOOSE i \in 1..Len(done) : done[i] = s

\* concurrent.futures.as_completed: the tasks that had finished when the
\* loop started come first, in no particular order; the tasks that were
\* pending then are yielded in the order they finish
YieldedNext(s) ==
    \/ s \notin pending
    \/ \A i \in 1..(DoneAt(s) - 1) : done[i] \in consumed

\* a raised task handled like a returned one would abort fetch_all
Collect_NoCatch(s) ==
    /\ fetch_pc = "collect"
    /\ s \in sources \ consumed
    /\ task[s] \in {"returned", "raised"}
    /\ YieldedNext(s)
    /\ consumed' = consumed \cup {s}
    /\ IF task[s] = "raised"
       THEN fetch_pc' = "raised" /\ UNCHANGED frames
       ELSE /\ UNCHANGED fetch_pc
            /\ frames' = IF results[s] # <<>> THEN Append(frames, results[s])
                         ELSE frames
    /\ UNCHANGED <<max_results, sources, adapterVars, pending, table, otherThanFetch>>

\* "for f in as_completed(tasks)": the next finished task is taken; its
\* data, when non-empty, becomes a frame; its exception is swallowed
Collect(s) ==
    /\ fetch_pc = "collect"
    /\ s \in sources \ consumed
    /\ task[s] \in {"returned", "raised"}
    /\ YieldedNext(s)
    /\ consumed' = consumed \cup {s}
    /\ frames' = IF task[s] = "returned" /\ results[s] # <<>>
                 THEN Append(frames, results[s])
                 ELSE frames
    /\ UNCHANGED <<max_results, sources, adapterVars, fetch_pc, pending, table,
                   otherThanFetch>>

\* a merge that does not wait for the tasks still running
Merge_BeforeAllDone ==
    /\ fetch_pc = "collect"
    /\ IF frames = <<>>
       THEN fetch_pc' = "no_data" /\ UNCHANGED table
       ELSE fetch_pc' = "returned" /\ table' = Concat(frames)
    /\ UNCHANGED <<max_results, sources, adapterVars, pending, consumed, frames,
                   otherThanFetch>>

\* all tasks are consumed: "if not frames: raise ValueError", else pd.concat
Merge ==
    /\ fetch_pc = "collect"
    /\ consumed = sources
    /\ IF frames = <<>>
       THEN fetch_pc' = "no_data" /\ UNCHANGED table
       ELSE fetch_pc' = "returned" /\ table' = Concat(frames)
    /\ UNCHANGED <<max_results, sources, adapterVars, pending, consumed, frames,
                   otherThanFetch>>

FetchNext ==
    \/ Submit
    \/ AsCompleted
    \/ \E s \in Sources : TaskRaises(s)
    \/ \E s \in Sources : Fail(s)
    \/ OpenAlexPage
    \/ CrossrefPage
    \/ ArxivNoFeedparser
    \/ ArxivPage
    \/ \E s \in Sources : Collect(s)
    \/ Merge

DedupIdle == DedupStart(<<>>)

OrderIdle ==
    /\ outputs = <<>>
    /\ first_run = <<>>
    /\ order_pc = "idle"

FetchInit == FetchIdle /\ fetch_pc = "call" /\ DedupIdle /\ TextIdle /\ EnrichIdle /\ ExportIdle /\ ItemsIdle /\ OrderIdle

SpecFetch == FetchInit /\ [][FetchNext]_vars

FetchFinished == fetch_pc \notin {"idle", "call", "submitted", "collect"}

\* every record of the pages an adapter has received, in page order
AllRecords(s) ==
    Concat([k \in 1..Len(pages[s]) |-> PageRecords(s, k, pages[s][k])])

ReturnedData(s) == task[s] = "returned" /\ results[s] # <<>>

\* C3: fetch_all fails with the no-data error if and only if every requested
\* adapter returned an empty sequence or raised; when some adapter returned
\* a non-empty sequence, fetch_all returns and its table holds every record
\* of every non-empty adapter output, whatever the other adapters did.
C3_NoDataIffAllEmpty ==
    FetchFinished =>
      /\ fetch_pc \in {"no_data", "returned"}
      /\ fetch_pc = "no_data" <=> \A s \in sources : ~ReturnedData(s)
      /\ fetch_pc = "returned" =>
            \A s \in sources :
               ReturnedData(s) =>
                  \A k \in 1..Len(results[s]) :
                     Cardinality({j \in 1..Len(table) : table[j] = results[s][k]}) = 1

\* all three sources requested: one raised, one failed on its first request,
\* one returned records, and fetch_all returned them
C3_Witness ==
    /\ fetch_pc = "returned"
    /\ \E a, b, c \in sources :
          /\ task[a] = "raised"
          /\ task[b] = "returned" /\ stop[b] = "error" /\ results[b] = <<>>
          /\ ReturnedData(c)
          /\ table = results[c]
          /\ Len(table) > 1

\* C4: max_results is a per-source cap: no adapter holds more than
\* max_results records, whatever the sizes of the pages it received, and the
\* table fetch_all returns holds at most max_results rows per requested
\* source.
C4_PerSourceCap ==
    /\ \A s \in Sources : Len(results[s]) <= max_results
    /\ fetch_pc = "returned" =>
          Len(table) <= max_results * Cardinality(sources)

\* every source was sent a page larger than max_results and the table is
\* exactly full
C4_Witness ==
    /\ fetch_pc = "returned"
    /\ sources = Sources
    /\ max_results > 1
    /\ \A s \in sources : \E k \in 1..Len(pages[s]) : pages[s][k] > max_results
    /\ Len(table) = max_results * Cardinality(sources)

PaginateNext ==
    \/ Submit
    \/ \E s \in Sources : Fail(s)
    \/ OpenAlexPage
    \/ ArxivNoFeedparser
    \/ ArxivPage

\* every request carries timeout=(3, 15): a running adapter's pending
\* request is answered or fails, so its loop takes its next step
PaginateFairness ==
    /\ WF_vars(OpenAlexPage \/ Fail("openalex"))
    /\ WF_vars(ArxivPage \/ ArxivNoFeedparser \/ Fail("arxiv"))

SpecPaginate == FetchInit /\ [][PaginateNext]_vars /\ PaginateFairness

\* C12: the pagination loops of fetch_openalex and fetch_arxiv always
\* terminate: whatever the provider answers to each request, a running
\* adapter eventually returns.
C12_PaginationTerminates ==
    \A s \in {"openalex", "arxiv"} :
       (task[s] = "running") ~> (task[s] = "returned")

AllTasksDone == \A s \in sources : task[s] \in {"returned", "raised"}

\* the whole outputs of the sources of q that returned records, one after
\* the other in the order of q
BlocksOf(q) ==
    LET withData == SelectSeq(q, ReturnedData)
    IN  Concat([i \in 1..Len(withData) |-> results[withData[i]]])

\* the orders in which the collecting loop can have taken the tasks: tasks
\* finished before the loop started first, then the others as they finished
Orders(S) == {q \in [1..Cardinality(S) -> S] : Range(q) = S}

YieldOrders ==
    {q \in Orders(sources) :
        \A i, j \in 1..Len(q) :
           i < j =>
             /\ q[j] \notin pending => q[i] \notin pending
             /\ (q[i] \in pending /\ q[j] \in pending) => DoneAt(q[i]) < DoneAt(q[j])}

\* C11 as stated: the merged table is built only after all adapter tasks
\* have completed or failed, and it is the concatenation of the whole
\* non-empty adapter outputs in completion order.
C11_MergedInCompletionOrder ==
    fetch_pc = "returned" =>
       /\ AllTasksDone
       /\ table = BlocksOf(done)

\* C11 as amended: the merged table is built only after all adapter tasks
\* have completed or failed, and it is the concatenation of the whole
\* non-empty adapter outputs in the order the collecting loop took them:
\* each source's records form one contiguous block in fetch order, nothing
\* is lost or duplicated; tasks that finished after the loop started are in
\* completion order, those that had finished before it started come first
\* in an unspecified order.
C11_MergedInYieldOrder ==
    fetch_pc = "returned" =>
       /\ AllTasksDone
       /\ \E q \in YieldOrders : table = BlocksOf(q)

\* three sources with records: two had finished before the loop started and
\* were taken in the reverse of their completion order, the third finished
\* after it started and comes last
C11_Witness ==
    /\ fetch_pc = "returned"
    /\ sources = Sources
    /\ \A s \in sources : ReturnedData(s)
    /\ pending = {done[3]}
    /\ table = results[done[2]] \o results[done[1]] \o results[done[3]]
    /\ Len(table) > 3

FetchOff == FetchIdle /\ fetch_pc = "idle"

PipelineInit ==
    /\ export_df \in FetchedTables
    /\ df_ready = EmptyTable
    /\ export_pc = "fetched"
    /\ DedupIdle /\ FetchOff /\ TextIdle /\ EnrichIdle /\ ItemsIdle /\ OrderIdle

SpecPipeline == PipelineInit /\ [][PipelineNext]_vars

\* the columns the projection is said to leave alone
UntouchedColumns == {"title", "authors", "abstract", "summary", "journal"}

\* C14: for every row of a table that has been through the text
\* normalization, clean_for_biblioshiny leaves the values of title, authors,
\* abstract, summary and journal unchanged; the exported authors value
\* equals the in-memory one.
C14_ExportChangesOnlyYearAndKeywords ==
    export_pc = "returned" =>
       \A k \in 1..Len(df_ready.rows) :
          \A c \in UntouchedColumns \cap Range(df_ready.cols) :
             df_ready.rows[k][c] = export_df.rows[k][c]

ItemsInit ==
    /\ \/ item_source = "crossref" /\ page_items \in Pages(CrossrefItems)
       \/ item_source = "openalex" /\ page_items \in Pages(OpenAlexItems)
    /\ item_max \in 1..MaxItems
    /\ item_i = 1
    /\ item_results = <<>>
    /\ item_pc = "page"
    /\ DedupIdle /\ FetchOff /\ TextIdle /\ EnrichIdle /\ ExportIdle /\ OrderIdle

SpecItems == ItemsInit /\ [][ItemsNext]_vars

ItemsReturned == item_pc \in {"returned", "returned_on_error"}

\* the record of an item whose malformed fields are replaced by the neutral
\* default: null year, empty abstract
RecoveredRecord(k, item) ==
    IF item_source = "openalex" THEN OpenAlexRecord(k, item)
    ELSE [item |-> k,
          year |-> IF YearRaisesIndexError(item.date_parts) THEN NoneCell
                   ELSE CrossrefYear(item.date_parts),
          abstract |-> IF AbstractRaisesAttributeError(item.abstract) THEN <<>>
                       ELSE CrossrefAbstract(item.abstract)]

\* C13: a malformed field inside one item of a received page is recovered
\* locally: the adapter emits, for every item of the page up to the cap, a
\* record whose malformed fields hold the neutral default; a malformed item
\* never truncates the adapter's result.
C13_MalformedFieldRecoveredLocally ==
    ItemsReturned =>
       /\ Len(item_results) = Min2(Len(page_items), item_max)
       /\ \A k \in 1..Len(item_results) :
             item_results[k] = RecoveredRecord(k, page_items[k])


DedupInit == (\E t \in Tables : DedupStart(t)) /\ FetchOff /\ TextIdle /\ EnrichIdle /\ ExportIdle /\ ItemsIdle /\ OrderIdle

CleanInit ==
    /\ text \in {Str(x) : x \in Strings(Chars, MaxLen)} \cup {NotStr}
    /\ cleaned = <<>>
    /\ recleaned = <<>>
    /\ clean_pc = "raw"
    /\ DedupIdle /\ FetchOff /\ AbstractIdle /\ AuthorsIdle /\ EnrichIdle /\ ExportIdle /\ ItemsIdle /\ OrderIdle

SpecClean == CleanInit /\ [][CleanNext]_vars

\* C6: markup cleaning is idempotent: cleaning the output of one cleaning
\* pass changes nothing, for every text, nested and adjacent brackets
\* included.
C6_CleaningIdempotent ==
    clean_pc = "recleaned" => recleaned = cleaned

AbstractInit ==
    /\ index \in Indexes
    /\ abstract = <<>>
    /\ abstract_pc = "item"
    /\ DedupIdle /\ FetchOff /\ CleanIdle /\ AuthorsIdle /\ EnrichIdle /\ ExportIdle /\ ItemsIdle /\ OrderIdle

SpecAbstract == AbstractInit /\ [][AbstractNext]_vars

\* C7: reconstruct_abstract returns the words ordered by position over all
\* (word, position) pairs, joined by single spaces, a word occurring at
\* several positions appearing once per position; a non-mapping input
\* gives the empty string.
C7_ReconstructByPosition ==
    abstract_pc = "record" => abstract = AbstractByPosition(index)

AuthorsInit ==
    /\ name_string \in {Str(x) : x \in CanonicalAuthors \cup OtherAuthors} \cup {NotStr}
    /\ normalized = <<>>
    /\ renormalized = <<>>
    /\ authors_pc = "raw"
    /\ DedupIdle /\ FetchOff /\ CleanIdle /\ AbstractIdle /\ EnrichIdle /\ ExportIdle /\ ItemsIdle /\ OrderIdle

SpecAuthors == AuthorsInit /\ [][AuthorsNext]_vars

SpecDedup == DedupInit /\ [][DedupNext]_vars

DedupDone == row_i > Len(df)
Kept(k) == k \in Range(final_rows)

\* C1: remove_duplicates returns a subsequence of the input rows (kept rows
\* stay in input order), and a row with a non-empty DOI is kept if and only
\* if no earlier input row carries the same DOI, whatever its title is.
C1_DoiFirstOccurrenceKept ==
    /\ \A a, b \in 1..Len(final_rows) : a < b => final_rows[a] < final_rows[b]
    /\ \A k \in 1..(row_i - 1) :
          HasDoi(df[k]) =>
            (Kept(k) <=> ~\E j \in 1..(k - 1) : df[j].doi = df[k].doi)

\* the table [A, A, B] of the specification, the second row carrying a
\* title no other row has: rows 1 and 3 survive
C1_Witness ==
    /\ DedupDone
    /\ Len(df) = 3
    /\ df[1].doi = "10.1/x" /\ df[2].doi = "10.1/x" /\ df[3].doi = "10.1/y"
    /\ NormTitle(df[1]) = NormTitle(df[3])
    /\ NormTitle(df[2]) # NormTitle(df[1])
    /\ final_rows = <<1, 3>>

\* C2 as stated: a row without DOI is dropped exactly when the similarity of
\* its normalised title to the normalised title of some kept row exceeds
\* 95, for every title value, the empty title included.
C2_DroppedIffSimilarToKept ==
    \A k \in 1..(row_i - 1) :
        ~HasDoi(df[k]) =>
          (~Kept(k) <=>
             \E j \in 1..(k - 1) :
                /\ Kept(j)
                /\ SimilarTable[<<NormTitle(df[j]), NormTitle(df[k])>>])

\* C2 as amended: a row without DOI is dropped exactly when its normalised
\* title is non-empty and its similarity to the non-empty normalised title
\* of some kept row (with or without DOI) exceeds 95; titles of dropped rows
\* are never compared against.
C2_DroppedIffSimilarToKeptNonEmpty ==
    \A k \in 1..(row_i - 1) :
        ~HasDoi(df[k]) =>
          (~Kept(k) <=>
             /\ NormTitle(df[k]) # <<>>
             /\ \E j \in 1..(k - 1) :
                   /\ Kept(j)
                   /\ NormTitle(df[j]) # <<>>
                   /\ SimilarTable[<<NormTitle(df[j]), NormTitle(df[k])>>])

\* row 2 is dropped against the DOI-bearing row 1; row 3 resembles the
\* dropped row 2 only, and is kept
C2_Witness ==
    /\ DedupDone
    /\ Len(df) = 3
    /\ HasDoi(df[1]) /\ ~HasDoi(df[2]) /\ ~HasDoi(df[3])
    /\ SimilarTable[<<NormTitle(df[1]), NormTitle(df[2])>>]
    /\ SimilarTable[<<NormTitle(df[2]), NormTitle(df[3])>>]
    /\ ~SimilarTable[<<NormTitle(df[1]), NormTitle(df[3])>>]
    /\ df[2].title # NormTitle(df[2])
    /\ final_rows = <<1, 3>>

(***************************************************************************)
(* fetch_all followed by remove_duplicates, on the same adapter outputs in *)
(* two completion orders                                                   *)
(***************************************************************************)
MaxOutput == 2

\* what one adapter returns
Outputs == UNION { [1..n -> Rows] : n \in 0..MaxOutput }

\* pd.DataFrame(final_rows): the rows that survive
Survivors == [k \in 1..Len(final_rows) |-> df[final_rows[k]]]

\* the second run: the same two adapters return the same records and
\* complete in the other order, so fetch_all concatenates their frames the
\* other way round
SecondRun ==
    /\ order_pc = "first"
    /\ DedupDone
    /\ first_run' = Survivors
    /\ order_pc' = "second"
    /\ df' = Concat(Reverse(outputs))
    /\ row_i' = 1
    /\ seen_dois' = {}
    /\ final_rows' = <<>>
    /\ UNCHANGED <<outputs, otherThanOrder>>

OrderNext == DedupDoiRow \/ DedupTitleRow \/ SecondRun

OrderInit ==
    /\ outputs \in [1..2 -> Outputs]
    /\ first_run = <<>>
    /\ order_pc = "first"
    /\ DedupStart(Concat(outputs))
    /\ FetchOff /\ TextIdle /\ EnrichIdle /\ ExportIdle /\ ItemsIdle

SpecOrder == OrderInit /\ [][OrderNext]_vars

\* C15: when the adapters return the same records and complete in a
\* different order, the same set of records, and the same number of
\* records, survives deduplication.
C15_SurvivorsIndependentOfOrder ==
    (order_pc = "second" /\ DedupDone) =>
       /\ Len(Survivors) = Len(first_run)
       /\ Range(Survivors) = Range(first_run)

\* the fetch has returned a non-empty table; duplicates are removed and the
\* text columns are cleaned
EnrichInit ==
    /\ run_pc = "fetched"
    /\ client_ok \in BOOLEAN
    /\ do_summ = FALSE
    /\ do_keys = FALSE
    /\ abstracts \in UNION { [1..n -> BOOLEAN] : n \in 1..MaxEnrichRows }
    /\ summary = [i \in 1..Len(abstracts) |-> ""]
    /\ keywords = [i \in 1..Len(abstracts) |-> <<>>]
    /\ DedupIdle /\ FetchOff /\ TextIdle /\ ExportIdle /\ ItemsIdle /\ OrderIdle

SpecEnrich == EnrichInit /\ [][EnrichNext]_vars

\* C8: once fetch has returned a non-empty table the run always ends by
\* producing an output table: no failure of the summary or keyword
\* collaborator, a client that cannot be constructed included, aborts it.
C8_EnrichmentNeverAborts == run_pc # "error"

ExportInit ==
    /\ export_df \in ExportTables
    /\ df_ready = EmptyTable
    /\ export_pc = "call"
    /\ DedupIdle /\ FetchOff /\ TextIdle /\ EnrichIdle /\ ItemsIdle /\ OrderIdle

SpecExport == ExportInit /\ [][ExportNext]_vars

Present(c) == c \in Range(export_df.cols)

ExpectedColumns == SelectSeq(columns_to_keep, Present)

ProjectionHolds ==
    /\ df_ready.cols = ExpectedColumns
    /\ Len(df_ready.rows) = Len(export_df.rows)
    /\ \A k \in 1..Len(df_ready.rows) : DOMAIN df_ready.rows[k] = Range(ExpectedColumns)
    /\ "doi" \notin Range(df_ready.cols)
    /\ "source" \notin Range(df_ready.cols)

====
